---- MODULE Spec2Model ----
(***************************************************************************)
(* Model of Adafruit_Video_Looper/image_player.py: the ImagePlayer with    *)
(* its byte-bounded LRU image cache (_load_image, _add_to_cache,           *)
(* _evict_cache), the placement arithmetic of play, and the playback timer *)
(* (play, is_playing, stop).                                               *)
(*                                                                         *)
(* The while loop of _add_to_cache is modelled one iteration per step, so  *)
(* that the states between two evictions and a loop that never exits are   *)
(* both visible.  Everything else is one step per handler.                 *)
(***************************************************************************)
EXTENDS Integers, Sequences, FiniteSets, TLC

(* ------------------------------------------------------------------ *)
(* Bounds of the model                                                  *)
(* ------------------------------------------------------------------ *)
MaxLimitMB == 3      \* cache_size_limit is drawn from 0..MaxLimitMB megabytes
MaxHist    == 4      \* the observer hist keeps the last MaxHist cache accesses
MaxTime    == 4      \* the monotonic clock runs from 0 to MaxTime
MaxRewind  == 4      \* stop is not called once start_time is further than this from the clock range

(* ------------------------------------------------------------------ *)
(* Program constants                                                    *)
(* ------------------------------------------------------------------ *)
MiB == 1048576       \* 1024 * 1024, bytes per configured megabyte

(* ------------------------------------------------------------------ *)
(* The files the playlist can name                                      *)
(* ------------------------------------------------------------------ *)
Paths == {"", "a.png", "b.png", "c.png", "gone.png", "bad.png"}

NoFile == [kind |-> "missing", w |-> 0, h |-> 0, depth |-> 0]

BadFile == [kind |-> "corrupt", w |-> 0, h |-> 0, depth |-> 0]

ImageFile(w, h, d) == [kind |-> "image", w |-> w, h |-> h, depth |-> d]

\* decoded sizes 1 MiB, 2 MiB and 4 MiB
CacheImages == {ImageFile(512, 512, 4), ImageFile(1024, 512, 4), ImageFile(1024, 1024, 4)}

\* images wider than, taller than, equal in aspect to, and smaller or larger than the screens
DrawImages == {ImageFile(1000, 500, 4), ImageFile(400, 800, 4), ImageFile(1600, 1200, 4),
               ImageFile(400, 300, 4), ImageFile(100, 100, 4), ImageFile(900, 100, 4),
               ImageFile(440, 600, 4), ImageFile(500, 220, 4)}

Screens == {<<800, 600>>, <<600, 800>>}

NoImage == [path |-> "", w |-> 0, h |-> 0, depth |-> 0, serial |-> 0]

NoRect == [x |-> 0, y |-> 0, w |-> 0, h |-> 0]

VARIABLES
    \* configuration and collaborators (fixed after construction)
    disk,              \* path -> file on disk (os.path.isfile, pygame.image.load)
    cache_size_limit,  \* self._cache_size_limit, bytes
    duration,          \* self._duration
    wait_time,         \* self._wait_time
    scale,             \* self._scale
    center,            \* self._center
    size,              \* self._size = <<screen_w, screen_h>>
    bgimage,           \* TRUE iff self._bgimage[0] is not None
    \* program state
    image_cache,       \* self._image_cache: sequence of entries, head = least recently used
    current_cache_size,\* self._current_cache_size
    loop,              \* self._loop
    start_time,        \* self._start_time
    \* control
    pc,                \* "idle", or "add_to_cache" while play is inside the while loop of _add_to_cache
    pending,           \* the decoded image _add_to_cache is inserting
    now,               \* time.monotonic()
    \* observers of the last call (they do not influence the program)
    lastCall,          \* "none", "play", "is_playing", "stop"
    ret,               \* result of the last is_playing since the last play: "none", "true", "false"
    outcome,           \* "ok", "running" or "DecodeError" for the last call
    surface,           \* drawing operations issued by the last call, in order
    rect,              \* rectangle of the image blit of the last call
    returned,          \* what _load_image returned in the last call
    hitCall,           \* TRUE iff the last call took the cache-hit branch of _load_image
    decoded,           \* TRUE iff the last call invoked pygame.image.load
    argImage,          \* the image descriptor of the last play
    argLoop,           \* the loop argument of the last play: {} for None, {n} for n
    evicted,           \* paths evicted by the last call, in order
    decodes,           \* path -> decoder calls for it since it last was absent from the cache
    recency,           \* every path ever accessed through _load_image, oldest access first
    hist,              \* the last MaxHist paths accessed through _load_image
    playTime,          \* clock value at which the last play set start_time
    phase              \* "new"; "loading" inside a play; "started" once a play returned; "failed" once a
                       \* play raised; "stopped" once stop was called after that

config == <<disk, cache_size_limit, duration, wait_time, scale, center, size, bgimage>>

observers == <<lastCall, ret, outcome, surface, rect, returned, hitCall, decoded,
               argImage, argLoop, evicted,
               decodes, recency, hist, playTime, phase>>

vars == <<disk, cache_size_limit, duration, wait_time, scale, center, size, bgimage,
          image_cache, current_cache_size, loop, start_time, pc, pending, now,
          lastCall, ret, outcome, surface, rect, returned, hitCall, decoded,
          argImage, argLoop, evicted,
          decodes, recency, hist, playTime, phase>>

(* ------------------------------------------------------------------ *)
(* Helpers on ordered mappings                                          *)
(* ------------------------------------------------------------------ *)
Keys(cache) == {cache[i].path : i \in 1..Len(cache)}

Without(cache, path) == SelectSeq(cache, LAMBDA e : e.path # path)

Lookup(cache, path) == CHOOSE e \in {cache[i] : i \in 1..Len(cache)} : e.path = path

RemoveElem(s, x) == SelectSeq(s, LAMBDA y : y # x)

Touch(s, x) == Append(RemoveElem(s, x), x)

Window(s, x) == LET t == Append(s, x)
                IN  IF Len(t) > MaxHist THEN SubSeq(t, Len(t) - MaxHist + 1, Len(t)) ELSE t

Rank(s, x) == CHOOSE i \in 1..Len(s) : s[i] = x

(* ------------------------------------------------------------------ *)
(* ImagePlayer: pure parts                                              *)
(* ------------------------------------------------------------------ *)
\* _get_image_size: width * height * bytes per pixel
get_image_size(pyimage) == pyimage.w * pyimage.h * pyimage.depth

\* (variant: the isfile test is forgotten, only the empty path is skipped)
IsFile_nonempty(path) == path # ""

\* os.path.isfile guarded by the empty-path test of play
IsFile(path) == path # "" /\ disk[path].kind # "missing"

\* pygame.image.load on a readable image file
Decode(path) == [path |-> path, w |-> disk[path].w, h |-> disk[path].h,
                 depth |-> disk[path].depth, serial |-> decodes[path] + 1]

\* (variant: the test forgets the size of the image about to be inserted)
LoopCond_ignoresNew(image_size) == current_cache_size > cache_size_limit

\* (variant: the cache is emptied before every insertion)
LoopCond_flush(image_size) == current_cache_size > 0

\* the test of the while loop in _add_to_cache
LoopCond(image_size) == current_cache_size + image_size > cache_size_limit

\* (variant: the zero test of play is forgotten)
ResolveLoop_raw(image, loopArg) ==
    IF loopArg = {} THEN image.repeats ELSE CHOOSE n \in loopArg : TRUE

\* the resolution of the loop count at the top of play
ResolveLoop(image, loopArg) ==
    LET l == IF loopArg = {} THEN image.repeats ELSE CHOOSE n \in loopArg : TRUE
    IN  IF l = 0 THEN 1 ELSE l

\* _blank_screen(flip): the drawing operations it issues
blank_screen(flip) ==
    <<"fill">> \o (IF bgimage THEN <<"blit_bg">> ELSE <<>>) \o (IF flip THEN <<"flip">> ELSE <<>>)

\* The scaled dimensions are computed in double precision: photo_aspect_ratio is the rounded
\* quotient image_w / image_h, and int() truncates n / ratio or n * ratio.  Where the exact
\* result is an integer the double can fall just below it, and int() then gives one less.
\* On the sizes of Screens, DrawImages and CacheImages this happens exactly for the triples
\* <<n, image_w, image_h>> below (for all others the truncation equals the exact floor).
QuotientFallsShort == {<<800, 500, 220>>}

ProductFallsShort == {<<600, 440, 600>>}

\* int(n / (image_w / image_h)), line 109
IntOfQuotient(n, image_w, image_h) ==
    IF <<n, image_w, image_h>> \in QuotientFallsShort
    THEN (n * image_h) \div image_w - 1
    ELSE (n * image_h) \div image_w

\* int(n * (image_w / image_h)), line 113
IntOfProduct(n, image_w, image_h) ==
    IF <<n, image_w, image_h>> \in ProductFallsShort
    THEN (n * image_w) \div image_h - 1
    ELSE (n * image_w) \div image_h

\* (variant: the centering block is nested inside the scaling block)
Placement_centerIfScaled(pyimage) ==
    LET screen_w == size[1]
        screen_h == size[2]
        image_w  == pyimage.w
        image_h  == pyimage.h
        \* screen_w / screen_h < image_w / image_h, both denominators positive
        widthBound  == screen_w * image_h < image_w * screen_h
        heightBound == screen_w * image_h > image_w * screen_h
        new_image_w == IF scale /\ widthBound THEN screen_w
                       ELSE IF scale /\ heightBound THEN IntOfProduct(screen_h, image_w, image_h)
                       ELSE image_w
        new_image_h == IF scale /\ widthBound THEN IntOfQuotient(screen_w, image_w, image_h)
                       ELSE IF scale /\ heightBound THEN screen_h
                       ELSE image_h
        \* the surface handed to blit: the equal-aspect branch stretches to the screen
        drawn_w == IF scale /\ ~widthBound /\ ~heightBound THEN screen_w ELSE new_image_w
        drawn_h == IF scale /\ ~widthBound /\ ~heightBound THEN screen_h ELSE new_image_h
        image_x == IF center /\ scale /\ ~widthBound /\ heightBound
                   THEN (screen_w - new_image_w) \div 2 ELSE 0
        image_y == IF center /\ scale /\ widthBound
                   THEN (screen_h - new_image_h) \div 2 ELSE 0
    IN  [x |-> image_x, y |-> image_y, w |-> drawn_w, h |-> drawn_h]

\* (variant: the two scaling branches are taken the wrong way round)
Placement_swapped(pyimage) ==
    LET screen_w == size[1]
        screen_h == size[2]
        image_w  == pyimage.w
        image_h  == pyimage.h
        \* screen_w / screen_h < image_w / image_h, both denominators positive
        widthBound  == screen_w * image_h < image_w * screen_h
        heightBound == screen_w * image_h > image_w * screen_h
        new_image_w == IF scale /\ heightBound THEN screen_w
                       ELSE IF scale /\ widthBound THEN IntOfProduct(screen_h, image_w, image_h)
                       ELSE image_w
        new_image_h == IF scale /\ heightBound THEN IntOfQuotient(screen_w, image_w, image_h)
                       ELSE IF scale /\ widthBound THEN screen_h
                       ELSE image_h
        \* the surface handed to blit: the equal-aspect branch stretches to the screen
        drawn_w == IF scale /\ ~widthBound /\ ~heightBound THEN screen_w ELSE new_image_w
        drawn_h == IF scale /\ ~widthBound /\ ~heightBound THEN screen_h ELSE new_image_h
        image_x == IF center /\ ~widthBound /\ heightBound
                   THEN (screen_w - new_image_w) \div 2 ELSE 0
        image_y == IF center /\ widthBound
                   THEN (screen_h - new_image_h) \div 2 ELSE 0
    IN  [x |-> image_x, y |-> image_y, w |-> drawn_w, h |-> drawn_h]


\* Lines 98-124 of play: where and at what size the image is drawn
Placement(pyimage) ==
    LET screen_w == size[1]
        screen_h == size[2]
        image_w  == pyimage.w
        image_h  == pyimage.h
        \* screen_w / screen_h < image_w / image_h, both denominators positive
        widthBound  == screen_w * image_h < image_w * screen_h
        heightBound == screen_w * image_h > image_w * screen_h
        new_image_w == IF scale /\ widthBound THEN screen_w
                       ELSE IF scale /\ heightBound THEN IntOfProduct(screen_h, image_w, image_h)
                       ELSE image_w
        new_image_h == IF scale /\ widthBound THEN IntOfQuotient(screen_w, image_w, image_h)
                       ELSE IF scale /\ heightBound THEN screen_h
                       ELSE image_h
        \* the surface handed to blit: the equal-aspect branch stretches to the screen
        drawn_w == IF scale /\ ~widthBound /\ ~heightBound THEN screen_w ELSE new_image_w
        drawn_h == IF scale /\ ~widthBound /\ ~heightBound THEN screen_h ELSE new_image_h
        image_x == IF center /\ ~widthBound /\ heightBound
                   THEN (screen_w - new_image_w) \div 2 ELSE 0
        image_y == IF center /\ widthBound
                   THEN (screen_h - new_image_h) \div 2 ELSE 0
    IN  [x |-> image_x, y |-> image_y, w |-> drawn_w, h |-> drawn_h]


\* (variant: popitem(last=True), the most recently used entry goes)
popitem_last(cache) == [item |-> cache[Len(cache)], rest |-> SubSeq(cache, 1, Len(cache) - 1)]

\* OrderedDict.popitem(last=False) as called by _evict_cache: the item removed and what is left
popitem(cache) == [item |-> Head(cache), rest |-> Tail(cache)]

\* (variant: the popped entry is not stored again)
load_image_hit_drops(cache, image_path) == Without(cache, image_path)

\* (variant: the bitmap stored again on a hit is the one scaled for the screen)
load_image_hit_scaled(cache, image_path) ==
    LET pyimage == Lookup(cache, image_path)
    IN  Append(Without(cache, image_path),
               [pyimage EXCEPT !.w = Placement(pyimage).w, !.h = Placement(pyimage).h])

\* (variant: the entry is found and returned where it is, without being moved)
load_image_hit_inPlace(cache, image_path) == cache

\* the cache-hit branch of _load_image: pop the entry and store it again, at the end
load_image_hit(cache, image_path) ==
    LET pyimage == Lookup(cache, image_path)
    IN  Append(Without(cache, image_path), pyimage)

\* (variant: -1 is not treated as forever)
PlaysForever_strict == loop < -1

\* is_playing, first test: a loop count of -1 or less plays forever
PlaysForever == loop <= -1

\* (variant: the window is closed at its end instead of open)
Playing_inclusive(t) == (t - start_time) <= duration * loop

\* is_playing, second test, at clock value t
Playing(t) == (t - start_time) < duration * loop

\* (variant: stop rewinds by one duration, whatever the loop count)
Rewound_oneLoop == start_time - duration

\* stop: the rewound start time
Rewound == start_time - duration * loop

(* ------------------------------------------------------------------ *)
(* Observers shared by the handlers                                     *)
(* ------------------------------------------------------------------ *)
BeginCall(name) ==
    /\ lastCall' = name
    /\ evicted' = <<>>

(* ------------------------------------------------------------------ *)
(* play(image, loop)                                                    *)
(* ------------------------------------------------------------------ *)
\* (variant: room is made for the image before it is decoded)
load_image_raises_afterEviction ==
    /\ image_cache' = IF image_cache = <<>> THEN <<>> ELSE Tail(image_cache)
    /\ current_cache_size' = IF image_cache = <<>> THEN current_cache_size
                              ELSE current_cache_size - get_image_size(Head(image_cache))
    /\ UNCHANGED <<pending, decodes>>

\* _load_image on a miss when pygame.image.load raises at line 77: the exception leaves
\* _load_image before _add_to_cache is reached, nothing of the cache has been touched
load_image_raises == UNCHANGED <<image_cache, current_cache_size, pending, decodes>>

\* lines 124-127 of play once pyimage is known: draw, present, restart the timer
DrawAndStart(pyimage, drawnSoFar) ==
    /\ surface' = drawnSoFar \o <<"blit_image", "flip">>
    /\ rect' = Placement(pyimage)
    /\ start_time' = now
    /\ playTime' = now
    /\ returned' = pyimage
    /\ outcome' = "ok"
    /\ recency' = Touch(recency, pyimage.path)
    /\ hist' = Window(hist, pyimage.path)
    /\ phase' = "started"

play(image, loopArg) ==
    /\ pc = "idle"
    /\ BeginCall("play")
    /\ loop' = ResolveLoop(image, loopArg)
    /\ argImage' = image
    /\ argLoop' = loopArg
    /\ ret' = "none"
    /\ LET image_path == image.filename
       IN  IF IsFile(image_path)
           THEN IF image_path \in Keys(image_cache)
                THEN \* _load_image, cache hit
                     /\ image_cache' = load_image_hit(image_cache, image_path)
                     /\ DrawAndStart(Lookup(image_cache, image_path), blank_screen(FALSE))
                     /\ hitCall' = TRUE
                     /\ decoded' = FALSE
                     /\ UNCHANGED <<current_cache_size, pc, pending, decodes>>
                ELSE IF disk[image_path].kind # "image"
                THEN \* pygame.image.load raises; play is left through the exception
                     /\ surface' = blank_screen(FALSE)
                     /\ outcome' = "DecodeError"
                     /\ phase' = "failed"
                     /\ hitCall' = FALSE
                     /\ decoded' = TRUE
                     /\ returned' = NoImage
                     /\ load_image_raises
                     /\ UNCHANGED <<start_time, pc, rect, recency, hist, playTime>>
                ELSE \* _load_image, cache miss: decode, then enter _add_to_cache
                     /\ pending' = Decode(image_path)
                     /\ decodes' = [decodes EXCEPT ![image_path] = @ + 1]
                     /\ pc' = "add_to_cache"
                     /\ surface' = blank_screen(FALSE)
                     /\ outcome' = "running"
                     /\ phase' = "loading"
                     /\ hitCall' = FALSE
                     /\ decoded' = TRUE
                     /\ returned' = NoImage
                     /\ UNCHANGED <<image_cache, current_cache_size, start_time, rect,
                                    recency, hist, playTime>>
           ELSE \* empty path or no such file: nothing is drawn
                /\ surface' = <<>>
                /\ start_time' = now
                /\ playTime' = now
                /\ outcome' = "ok"
                /\ phase' = "started"
                /\ hitCall' = FALSE
                /\ decoded' = FALSE
                /\ returned' = NoImage
                /\ UNCHANGED <<image_cache, current_cache_size, pc, pending, decodes, rect,
                               recency, hist>>
    /\ UNCHANGED <<config, now>>

\* (variant: _evict_cache forgets to subtract the size of the entry it removed)
evict_cache_keepsSize ==
    /\ pc = "add_to_cache"
    /\ LoopCond(get_image_size(pending))
    /\ IF image_cache # <<>>
       THEN LET popped == popitem(image_cache)
            IN  /\ image_cache' = popped.rest
                /\ current_cache_size' = current_cache_size
                /\ evicted' = Append(evicted, popped.item.path)
                /\ decodes' = [decodes EXCEPT ![popped.item.path] = 0]
       ELSE UNCHANGED <<image_cache, current_cache_size, evicted, decodes>>
    /\ UNCHANGED <<config, loop, start_time, pc, pending, now,
                   lastCall, ret, outcome, surface, rect, returned, hitCall, decoded,
                   argImage, argLoop, recency, hist, playTime, phase>>

\* one iteration of the while loop of _add_to_cache: the test holds, _evict_cache runs
evict_cache ==
    /\ pc = "add_to_cache"
    /\ LoopCond(get_image_size(pending))
    /\ IF image_cache # <<>>
       THEN LET popped == popitem(image_cache)
            IN  /\ image_cache' = popped.rest
                /\ current_cache_size' = current_cache_size - get_image_size(popped.item)
                /\ evicted' = Append(evicted, popped.item.path)
                /\ decodes' = [decodes EXCEPT ![popped.item.path] = 0]
       ELSE UNCHANGED <<image_cache, current_cache_size, evicted, decodes>>
    /\ UNCHANGED <<config, loop, start_time, pc, pending, now,
                   lastCall, ret, outcome, surface, rect, returned, hitCall, decoded,
                   argImage, argLoop, recency, hist, playTime, phase>>

\* the while loop of _add_to_cache exits: insert, return to play, draw
add_to_cache ==
    /\ pc = "add_to_cache"
    /\ ~LoopCond(get_image_size(pending))
    /\ image_cache' = Append(image_cache, pending)
    /\ current_cache_size' = current_cache_size + get_image_size(pending)
    /\ DrawAndStart(pending, surface)
    /\ pc' = "idle"
    /\ pending' = NoImage
    /\ UNCHANGED <<config, loop, now,
                   lastCall, ret, hitCall, decoded,
                   argImage, argLoop, evicted, decodes>>

(* ------------------------------------------------------------------ *)
(* is_playing(), stop(), and the clock                                  *)
(* ------------------------------------------------------------------ *)
\* (variant: the wait_time test is forgotten, every poll after the end redraws the background)
is_playing_alwaysBlanks ==
    /\ pc = "idle"
    /\ BeginCall("is_playing")
    /\ IF PlaysForever
       THEN /\ ret' = "true"
            /\ surface' = <<>>
       ELSE /\ ret' = IF Playing(now) THEN "true" ELSE "false"
            /\ surface' = IF ~Playing(now) THEN blank_screen(TRUE) ELSE <<>>
    /\ outcome' = "ok"
    /\ UNCHANGED <<config, image_cache, current_cache_size, loop, start_time, pc, pending, now,
                   rect, returned, hitCall, decoded, argImage, argLoop,
                   decodes, recency, hist, playTime, phase>>

is_playing ==
    /\ pc = "idle"
    /\ BeginCall("is_playing")
    /\ IF PlaysForever
       THEN /\ ret' = "true"
            /\ surface' = <<>>
       ELSE /\ ret' = IF Playing(now) THEN "true" ELSE "false"
            /\ surface' = IF ~Playing(now) /\ wait_time > 0 THEN blank_screen(TRUE) ELSE <<>>
    /\ outcome' = "ok"
    /\ UNCHANGED <<config, image_cache, current_cache_size, loop, start_time, pc, pending, now,
                   rect, returned, hitCall, decoded, argImage, argLoop,
                   decodes, recency, hist, playTime, phase>>

stop ==
    /\ pc = "idle"
    /\ Rewound \in (0 - MaxRewind)..(MaxTime + MaxRewind)
    /\ BeginCall("stop")
    /\ surface' = blank_screen(TRUE)
    /\ start_time' = Rewound
    /\ phase' = "stopped"
    /\ outcome' = "ok"
    /\ UNCHANGED <<config, image_cache, current_cache_size, loop, pc, pending, now,
                   ret, rect, returned, hitCall, decoded, argImage, argLoop,
                   decodes, recency, hist, playTime>>

\* time.monotonic() never goes back
Tick ==
    /\ now < MaxTime
    /\ now' = now + 1
    /\ UNCHANGED <<config, image_cache, current_cache_size, loop, start_time, pc, pending,
                   observers>>

(* ------------------------------------------------------------------ *)
(* Construction                                                         *)
(* ------------------------------------------------------------------ *)
\* __init__: empty cache, loop 0, start time 0
InitPlayer ==
    /\ image_cache = <<>>
    /\ current_cache_size = 0
    /\ loop = 0
    /\ start_time = 0
    /\ pc = "idle"
    /\ pending = NoImage
    /\ lastCall = "none"
    /\ ret = "none"
    /\ outcome = "ok"
    /\ surface = <<>>
    /\ rect = NoRect
    /\ returned = NoImage
    /\ hitCall = FALSE
    /\ decoded = FALSE
    /\ argImage = [filename |-> "", repeats |-> 0]
    /\ argLoop = {}
    /\ evicted = <<>>
    /\ decodes = ("" :> 0) @@ ("a.png" :> 0) @@ ("b.png" :> 0) @@ ("c.png" :> 0) @@
                 ("gone.png" :> 0) @@ ("bad.png" :> 0)
    /\ recency = <<>>
    /\ hist = <<>>
    /\ playTime = 0
    /\ phase = "new"

\* the disk: three files that may be images, one that cannot be decoded, and names of no file
Files(a, b, c) ==
    ("" :> NoFile) @@ ("a.png" :> a) @@ ("b.png" :> b) @@ ("c.png" :> c) @@
    ("gone.png" :> NoFile) @@ ("bad.png" :> BadFile)

\* The cache under every mix of image sizes and every capacity; the clock stands still
Init ==
    /\ InitPlayer
    /\ \E a \in CacheImages, b \in CacheImages, c \in CacheImages : disk = Files(a, b, c)
    /\ \E mb \in 0..MaxLimitMB : cache_size_limit = mb * MiB
    /\ duration = 10
    /\ wait_time = 0
    /\ scale = TRUE
    /\ center = TRUE
    /\ size = <<800, 600>>
    /\ bgimage = FALSE
    /\ now = 0

\* the playlist items of the cache specification: every path, played once
Images == {[filename |-> p, repeats |-> 1] : p \in Paths}

Next ==
    \/ \E image \in Images : play(image, {})
    \/ evict_cache
    \/ add_to_cache

Spec == Init /\ [][Next]_vars

\* The timer under every resolved loop count and clock value.  One image that fits, so the
\* while loop of _add_to_cache exits at its first test and evict_cache is never enabled.
TimerPaths == {"", "a.png", "gone.png", "bad.png"}

TimerRepeats == {-2, -1, 0, 1, 2}

InitTimer ==
    /\ InitPlayer
    /\ disk = Files(ImageFile(512, 512, 4), NoFile, NoFile)
    /\ cache_size_limit = 1 * MiB
    /\ duration = 2
    /\ wait_time \in {0, 1}
    /\ scale = TRUE
    /\ center = TRUE
    /\ size = <<800, 600>>
    /\ bgimage \in BOOLEAN
    /\ now \in {0, 1}

TimerImages == {[filename |-> p, repeats |-> r] : p \in TimerPaths, r \in TimerRepeats}

NextTimer ==
    \/ \E image \in TimerImages : play(image, {})
    \/ add_to_cache
    \/ is_playing
    \/ stop
    \/ Tick

SpecTimer == InitTimer /\ [][NextTimer]_vars

\* play under every loop argument and repeat count; two equal images, room for one
LoopArgs == {{}, {-2}, {-1}, {0}, {1}, {3}}

Repeats == {-2, -1, 0, 1, 2}

InitArgs ==
    /\ InitPlayer
    /\ disk = Files(ImageFile(512, 512, 4), ImageFile(512, 512, 4), NoFile)
    /\ cache_size_limit = 1 * MiB
    /\ duration = 2
    /\ wait_time = 0
    /\ scale = TRUE
    /\ center = TRUE
    /\ size = <<800, 600>>
    /\ bgimage = TRUE
    /\ now = 0

ArgsImages == {[filename |-> p, repeats |-> r] : p \in {"", "a.png", "b.png", "gone.png"}, r \in Repeats}

NextArgs ==
    \/ \E image \in ArgsImages, l \in LoopArgs : play(image, l)
    \/ evict_cache
    \/ add_to_cache

SpecArgs == InitArgs /\ [][NextArgs]_vars

\* The placement under every flag combination, screen and image shape; room for one large image
InitDraw ==
    /\ InitPlayer
    /\ \E a \in DrawImages, b \in DrawImages : disk = Files(a, b, NoFile)
    /\ cache_size_limit = 8 * MiB
    /\ duration = 10
    /\ wait_time = 0
    /\ scale \in BOOLEAN
    /\ center \in BOOLEAN
    /\ size \in Screens
    /\ bgimage = FALSE
    /\ now = 0

SpecDraw == InitDraw /\ [][Next]_vars

(* ------------------------------------------------------------------ *)
(* Vocabulary of the properties                                         *)
(* ------------------------------------------------------------------ *)
\* the step is a call of play, with the arguments the observers recorded
PlayStep == play(argImage', argLoop')

\* the path names nothing to draw: empty, or no such file
Missing(path) == path = "" \/ disk[path].kind = "missing"

\* the last n elements of s, or all of s when it is shorter
Suffix(s, n) == IF Len(s) > n THEN SubSeq(s, Len(s) - n + 1, Len(s)) ELSE s

RECURSIVE PathsOf(_)
PathsOf(cache) == IF cache = <<>> THEN <<>> ELSE <<Head(cache).path>> \o PathsOf(Tail(cache))

Entries(cache) == {cache[i] : i \in 1..Len(cache)}

FileSize(path) == disk[path].w * disk[path].h * disk[path].depth

\* a.png, b.png and c.png decode to the same size and the capacity holds exactly two of them
FitsTwoOfThree ==
    /\ FileSize("a.png") = FileSize("b.png")
    /\ FileSize("b.png") = FileSize("c.png")
    /\ 2 * FileSize("a.png") <= cache_size_limit
    /\ 3 * FileSize("a.png") > cache_size_limit

(* ------------------------------------------------------------------ *)
(* Cache properties, specification Spec                                 *)
(* ------------------------------------------------------------------ *)
\* C1: whenever no call is in progress (so after every call that returned), either
\* current_cache_size <= cache_size_limit, or the cache holds exactly one entry and that
\* entry alone is larger than cache_size_limit.
C1_BoundInvariant ==
    pc = "idle" =>
        \/ current_cache_size <= cache_size_limit
        \/ /\ Len(image_cache) = 1
           /\ get_image_size(image_cache[1]) > cache_size_limit

\* a miss has evicted an entry, returned, and left the cache filled to the last byte
C1_Witness ==
    /\ pc = "idle"
    /\ lastCall = "play"
    /\ outcome = "ok"
    /\ evicted # <<>>
    /\ Len(image_cache) = 2
    /\ current_cache_size = cache_size_limit

\* C2: a miss for an image that alone exceeds cache_size_limit terminates: once the eviction
\* loop has emptied the cache it stops and the image is inserted, that is, inside
\* _add_to_cache with an empty cache the exit of the loop is always possible.
C2_AdmitOversized ==
    (pc = "add_to_cache" /\ image_cache = <<>>) => ENABLED add_to_cache

\* C3: an eviction removes the entry whose last access is older than that of every other
\* entry present; and with a capacity that fits exactly two of three same-sized images, once
\* the last four accesses were a, b, a, c the cache holds a then c, and b is gone.
C3_StrictLRU ==
    /\ [][\A i \in 1..Len(image_cache) :
             image_cache[i].path \notin Keys(image_cache') =>
                 \A j \in 1..Len(image_cache) :
                     j # i => Rank(recency, image_cache[i].path) < Rank(recency, image_cache[j].path)]_vars
    /\ []((pc = "idle" /\ FitsTwoOfThree /\ Suffix(hist, 4) = <<"a.png", "b.png", "a.png", "c.png">>)
            => PathsOf(image_cache) = <<"a.png", "c.png">>)

\* a, b, a, c were loaded, the last load evicted b and a stayed
C3_Witness ==
    /\ pc = "idle"
    /\ FitsTwoOfThree
    /\ Suffix(hist, 4) = <<"a.png", "b.png", "a.png", "c.png">>
    /\ evicted = <<"b.png">>
    /\ "a.png" \in Keys(image_cache)

\* C4: a play whose path is in the cache returns the cached bitmap, does not call the
\* decoder (the count for that path stays 1), evicts nothing, and leaves the set of entries,
\* their sizes' sum and the relative order of the other entries unchanged.
C4_IdempotentHit ==
    [][(PlayStep /\ ~Missing(argImage'.filename) /\ argImage'.filename \in Keys(image_cache)) =>
          LET image_path == argImage'.filename
          IN  /\ returned' = Lookup(image_cache, image_path)
              /\ returned' \in Entries(image_cache')
              /\ decoded' = FALSE
              /\ decodes' = decodes
              /\ decodes'[image_path] = 1
              /\ evicted' = <<>>
              /\ Entries(image_cache') = Entries(image_cache)
              /\ Len(image_cache') = Len(image_cache)
              /\ current_cache_size' = current_cache_size
              /\ Without(image_cache', image_path) = Without(image_cache, image_path)
              /\ pc' = "idle"]_vars

\* a hit on the least recently used of two entries
C4_Witness ==
    /\ lastCall = "play"
    /\ hitCall
    /\ pc = "idle"
    /\ Len(image_cache) = 2
    /\ returned = image_cache[2]
    /\ Suffix(hist, 3) = <<returned.path, image_cache[1].path, returned.path>>

(* ------------------------------------------------------------------ *)
(* Timer properties, specification SpecTimer                            *)
(* ------------------------------------------------------------------ *)
\* C5: an is_playing call that follows a stop call (no other call in between) returns
\* false, whatever the loop count (positive, or -1 and below) and the elapsed time.
C5_StopRewinds ==
    [][(lastCall = "stop" /\ lastCall' = "is_playing") => ret' = "false"]_vars

\* C6: once a play has resolved the loop count to -1 or less, and until stop is called, every
\* is_playing returns true whatever the clock says, and draws nothing.
C6_InfiniteLoop ==
    [][(is_playing /\ loop <= -1 /\ phase # "stopped") =>
          (ret' = "true" /\ surface' = <<>>)]_vars

\* an infinite playback polled long after a finite one of any loop count here would have ended
C6_Witness ==
    /\ lastCall = "is_playing"
    /\ loop <= -1
    /\ phase = "started"
    /\ ret = "true"
    /\ surface = <<>>
    /\ wait_time > 0
    /\ now - playTime >= 2 * duration

\* C7: after a play that resolved the loop count to 1 or more and returned at clock value
\* playTime, and with no stop since, is_playing at clock value now returns true exactly when
\* now - playTime < duration * loop; and once it has returned false it does not return true
\* again before the next play.
C7_FiniteWindow ==
    /\ [][(is_playing /\ loop >= 1 /\ phase = "started") =>
             (ret' = "true" <=> now - playTime < duration * loop)]_vars
    /\ [][(ret = "false" /\ loop >= 1 /\ phase = "started") => ret' # "true"]_vars

\* the poll made exactly when the window of two loops closes
C7_Witness ==
    /\ lastCall = "is_playing"
    /\ phase = "started"
    /\ loop = 2
    /\ now - playTime = duration * loop
    /\ ret = "false"

\* C10: a play whose path is empty or names no file returns normally, draws and clears
\* nothing, does not call the decoder, leaves the cache entries, their order and
\* current_cache_size as they were, stores the resolved loop count and sets start_time to
\* the clock.
C10_MissingSourceNoOp ==
    [][(PlayStep /\ Missing(argImage'.filename)) =>
          /\ outcome' = "ok"
          /\ pc' = "idle"
          /\ surface' = <<>>
          /\ rect' = rect
          /\ decoded' = FALSE
          /\ decodes' = decodes
          /\ image_cache' = image_cache
          /\ current_cache_size' = current_cache_size
          /\ loop' # 0
          /\ (argLoop' = {} /\ argImage'.repeats # 0 => loop' = argImage'.repeats)
          /\ (argLoop' = {} /\ argImage'.repeats = 0 => loop' = 1)
          /\ start_time' = now]_vars

\* a file that does not exist is played while an image is cached and an older playback runs
C10_Witness ==
    /\ lastCall = "play"
    /\ argImage.filename = "gone.png"
    /\ outcome = "ok"
    /\ image_cache # <<>>
    /\ surface = <<>>
    /\ loop = -2
    /\ start_time = now
    /\ now >= 2

(* ------------------------------------------------------------------ *)
(* Loop-count property, specification SpecArgs                          *)
(* ------------------------------------------------------------------ *)
\* C8: after any play the stored loop count is never 0; it is the loop argument when one was
\* given and image.repeats otherwise, with 0 replaced by 1 and every other value unchanged.
C8_LoopNormalization ==
    lastCall = "play" =>
        /\ loop # 0
        /\ (argLoop = {} => loop = (IF argImage.repeats = 0 THEN 1 ELSE argImage.repeats))
        /\ \A n \in argLoop : loop = (IF n = 0 THEN 1 ELSE n)

\* play of an empty path with no loop argument and repeats = 0
C8_Witness ==
    /\ lastCall = "play"
    /\ argLoop = {}
    /\ argImage = [filename |-> "", repeats |-> 0]
    /\ loop = 1

(* ------------------------------------------------------------------ *)
(* Placement properties, specification SpecDraw                         *)
(* ------------------------------------------------------------------ *)
\* the last call drew an image
Drew == \E i \in 1..Len(surface) : surface[i] = "blit_image"

\* the rectangle lies inside the screen
Inside(r) == r.x >= 0 /\ r.y >= 0 /\ r.x + r.w <= size[1] /\ r.y + r.h <= size[2]

\* the image is no larger than the screen in either dimension
FitsScreen(pyimage) == pyimage.w <= size[1] /\ pyimage.h <= size[2]

\* C9 as stated: whatever the scale and center flags, the image size and the screen size,
\* the rectangle at which play draws lies inside the screen.
C9_NoCrop == Drew => Inside(rect)

\* C9 as amended: the rectangle at which play draws lies inside the screen whenever scaling
\* is enabled, or the image is no larger than the screen in either dimension.
C9_NoCropScaledOrFitting ==
    (Drew /\ (scale \/ FitsScreen(returned))) => Inside(rect)

\* an image larger than the screen, scaled down and centred with bars above and below
C9_Witness ==
    /\ Drew
    /\ scale
    /\ center
    /\ ~FitsScreen(returned)
    /\ rect.y > 0
    /\ rect.w = size[1]
    /\ Inside(rect)

\* the aspect comparisons of play on the decoded image, by cross-multiplication
WidthBinds(pyimage) == size[1] * pyimage.h < pyimage.w * size[2]

HeightBinds(pyimage) == size[1] * pyimage.h > pyimage.w * size[2]

\* C11: with scaling enabled the drawn size is (screen_w, floor(screen_w * image_h / image_w))
\* when the screen aspect is smaller than the image aspect, (floor(screen_h * image_w /
\* image_h), screen_h) when it is greater, and (screen_w, screen_h) when they are equal; on a
\* screen of 800x600 an image of 1000x500 is drawn 800x400 and one of 400x800 is drawn 300x600.
C11_ScalingResult ==
    (Drew /\ scale) =>
        /\ WidthBinds(returned) =>
               (rect.w = size[1] /\ rect.h = (size[1] * returned.h) \div returned.w)
        /\ HeightBinds(returned) =>
               (rect.w = (size[2] * returned.w) \div returned.h /\ rect.h = size[2])
        /\ (~WidthBinds(returned) /\ ~HeightBinds(returned)) =>
               (rect.w = size[1] /\ rect.h = size[2])
        /\ (size = <<800, 600>> /\ returned.w = 1000 /\ returned.h = 500) =>
               (rect.w = 800 /\ rect.h = 400)
        /\ (size = <<800, 600>> /\ returned.w = 400 /\ returned.h = 800) =>
               (rect.w = 300 /\ rect.h = 600)

\* C12: with centering enabled the offset is (0, (screen_h - drawn_h) div 2) when the screen
\* aspect is smaller than the image aspect, ((screen_w - drawn_w) div 2, 0) when it is greater
\* and (0, 0) when they are equal, whether or not scaling is enabled; the drawn size is the
\* decoded size when scaling is disabled; with centering disabled the offset is (0, 0); on a
\* screen of 800x600 an image of 1000x500 scaled and centred is drawn at (0, 100).
C12_CenteringOffset ==
    Drew =>
        /\ ~center => (rect.x = 0 /\ rect.y = 0)
        /\ (center /\ WidthBinds(returned)) =>
               (rect.x = 0 /\ rect.y = (size[2] - rect.h) \div 2)
        /\ (center /\ HeightBinds(returned)) =>
               (rect.x = (size[1] - rect.w) \div 2 /\ rect.y = 0)
        /\ (center /\ ~WidthBinds(returned) /\ ~HeightBinds(returned)) =>
               (rect.x = 0 /\ rect.y = 0)
        /\ ~scale => (rect.w = returned.w /\ rect.h = returned.h)
        /\ (scale /\ center /\ size = <<800, 600>> /\ returned.w = 1000 /\ returned.h = 500) =>
               (rect.x = 0 /\ rect.y = 100)

\* an unscaled image wider than the screen, centred vertically and clipped at the right
C12_Witness ==
    /\ Drew
    /\ center
    /\ ~scale
    /\ WidthBinds(returned)
    /\ returned.w > size[1]
    /\ rect.x = 0
    /\ rect.y > 0
    /\ rect.h = returned.h

(* ------------------------------------------------------------------ *)
(* Further cache properties, specification Spec                         *)
(* ------------------------------------------------------------------ *)
\* width * height * bytes per pixel of a cache entry, summed over the cache
RECURSIVE SumSizes(_)
SumSizes(cache) ==
    IF cache = <<>> THEN 0
    ELSE Head(cache).w * Head(cache).h * Head(cache).depth + SumSizes(Tail(cache))

Range(s) == {s[i] : i \in 1..Len(s)}

\* C13: in every reachable state, the states between two evictions of one miss included,
\* current_cache_size is the sum of width * height * bytes per pixel over the entries in the
\* cache, and it is never negative.
C13_SizeAccounting ==
    /\ current_cache_size = SumSizes(image_cache)
    /\ current_cache_size >= 0

\* inside a miss whose image fits the capacity: one entry evicted, another about to be
C13_Witness ==
    /\ pc = "add_to_cache"
    /\ Len(evicted) = 1
    /\ image_cache # <<>>
    /\ current_cache_size + pending.w * pending.h * pending.depth > cache_size_limit
    /\ pending.w * pending.h * pending.depth <= cache_size_limit

\* C14: whenever _load_image has returned an image for a path, on a hit or on a miss, that
\* path is in the cache and is its most recently used entry; and a miss never evicts the
\* entry it is inserting.
C14_RequestedAtMRU ==
    /\ (pc = "idle" /\ lastCall = "play" /\ returned # NoImage) =>
           /\ returned.path = argImage.filename
           /\ image_cache # <<>>
           /\ image_cache[Len(image_cache)] = returned
           /\ returned.path \notin Range(evicted)
    /\ pc = "add_to_cache" =>
           /\ pending.path = argImage.filename
           /\ pending.path \notin Range(evicted)
           /\ pending.path \notin Keys(image_cache)

\* a miss that evicted the oldest entry and was inserted behind the one that stayed
C14_Witness ==
    /\ pc = "idle"
    /\ lastCall = "play"
    /\ ~hitCall
    /\ returned # NoImage
    /\ evicted # <<>>
    /\ Len(image_cache) = 2
    /\ image_cache[2].path = argImage.filename

\* C15: a play whose path is not cached and whose file the decoder cannot read ends with the
\* decoder's error, and the cache entries, their order and current_cache_size are as before
\* the call: nothing is evicted, nothing is inserted, no decode is counted.
C15_DecodeFailureKeepsCache ==
    [][(PlayStep /\ disk[argImage'.filename].kind = "corrupt") =>
          /\ outcome' = "DecodeError"
          /\ pc' = "idle"
          /\ returned' = NoImage
          /\ image_cache' = image_cache
          /\ current_cache_size' = current_cache_size
          /\ evicted' = <<>>
          /\ decodes' = decodes]_vars

\* the decoder failed while the cache was full to the last byte with two entries
C15_Witness ==
    /\ lastCall = "play"
    /\ outcome = "DecodeError"
    /\ disk[argImage.filename].kind = "corrupt"
    /\ Len(image_cache) = 2
    /\ current_cache_size = cache_size_limit

(* ------------------------------------------------------------------ *)
(* Further timer properties, specification SpecTimer                    *)
(* ------------------------------------------------------------------ *)
\* what a background-only redraw issues: fill, the background bitmap if there is one, present
BackgroundRedraw == IF bgimage THEN <<"fill", "blit_bg", "flip">> ELSE <<"fill", "flip">>

\* C16: an is_playing call that returns false while wait_time > 0, the call on which playback
\* turns false in particular, issues exactly a background-only redraw; an is_playing call that
\* returns true draws nothing; and with wait_time = 0 no is_playing call draws anything.
C16_GapRedraw ==
    [][is_playing =>
          /\ (ret' = "false" /\ wait_time > 0) => surface' = BackgroundRedraw
          /\ ret' = "true" => surface' = <<>>
          /\ wait_time = 0 => surface' = <<>>]_vars

\* the first poll after the window of a play closed, with a gap configured and no bitmap
C16_Witness ==
    /\ lastCall = "is_playing"
    /\ phase = "started"
    /\ wait_time > 0
    /\ ~bgimage
    /\ loop = 1
    /\ now - playTime = duration
    /\ ret = "false"
    /\ surface = <<"fill", "flip">>

\* C18: is_playing leaves loop and start_time unchanged; stop leaves loop unchanged and
\* changes start_time to start_time - duration * loop; and neither changes the cache
\* entries, their order or current_cache_size.
C18_FrameConditions ==
    /\ [][is_playing =>
             /\ loop' = loop
             /\ start_time' = start_time
             /\ image_cache' = image_cache
             /\ current_cache_size' = current_cache_size]_vars
    /\ [][stop =>
             /\ loop' = loop
             /\ start_time' = start_time - duration * loop
             /\ image_cache' = image_cache
             /\ current_cache_size' = current_cache_size]_vars

\* stop called during a playback of two loops of a cached image
C18_Witness ==
    /\ lastCall = "stop"
    /\ image_cache # <<>>
    /\ loop = 2
    /\ playTime > 0
    /\ start_time = playTime - 2 * duration
    /\ current_cache_size = cache_size_limit

\* C19: a play that ends with a decode error leaves loop and start_time as they were before
\* the call.
C19_FailedPlayKeepsTimer ==
    [][(PlayStep /\ disk[argImage'.filename].kind = "corrupt") =>
          (loop' = loop /\ start_time' = start_time)]_vars

\* the sizes on disk of the files named in a sequence of paths, summed
RECURSIVE SumFileSizes(_)
SumFileSizes(paths) ==
    IF paths = <<>> THEN 0 ELSE FileSize(Head(paths)) + SumFileSizes(Tail(paths))

\* the last miss has returned
MissReturned == pc = "idle" /\ lastCall = "play" /\ ~hitCall /\ returned # NoImage

\* C20: a miss evicts only while current_cache_size plus the size of the new image exceeds
\* cache_size_limit: every eviction happens under that test; when a miss has evicted, the
\* entries kept plus the last entry evicted plus the new image exceed cache_size_limit; and
\* a miss whose image fitted in the free space it found has evicted nothing.
C20_MinimalEviction ==
    /\ [][Len(image_cache') < Len(image_cache) =>
             current_cache_size + pending.w * pending.h * pending.depth > cache_size_limit]_vars
    /\ []((pc = "add_to_cache" /\ evicted # <<>>) =>
             current_cache_size + FileSize(evicted[Len(evicted)])
                 + pending.w * pending.h * pending.depth > cache_size_limit)
    /\ []((MissReturned /\ evicted # <<>>) =>
             /\ current_cache_size + FileSize(evicted[Len(evicted)]) > cache_size_limit
             /\ current_cache_size + SumFileSizes(evicted) > cache_size_limit)
    /\ []((MissReturned /\ current_cache_size + SumFileSizes(evicted) <= cache_size_limit) =>
             evicted = <<>>)

\* a miss that had to evict both entries to fit, and filled the cache to the last byte
C20_Witness ==
    /\ MissReturned
    /\ Len(evicted) = 2
    /\ Len(image_cache) = 1
    /\ current_cache_size = cache_size_limit

(* ------------------------------------------------------------------ *)
(* Further placement property, specification SpecDraw                   *)
(* ------------------------------------------------------------------ *)
\* the bitmap has the pixel dimensions of the file it was decoded from
OriginalSize(pyimage) ==
    /\ pyimage.w = disk[pyimage.path].w
    /\ pyimage.h = disk[pyimage.path].h
    /\ pyimage.depth = disk[pyimage.path].depth

\* C17: whatever was played and scaled, every cache entry has the pixel dimensions of its
\* original decode, a hit returns the unscaled image, and current_cache_size is the sum of
\* the original sizes of the entries (what an eviction subtracts is what the insertion added).
C17_CachedOriginalUnscaled ==
    /\ \A i \in 1..Len(image_cache) : OriginalSize(image_cache[i])
    /\ (lastCall = "play" /\ returned # NoImage) => OriginalSize(returned)
    /\ current_cache_size = SumFileSizes(PathsOf(image_cache))

\* a second hit on an image that is drawn scaled down, with another entry in the cache
C17_Witness ==
    /\ pc = "idle"
    /\ lastCall = "play"
    /\ hitCall
    /\ scale
    /\ Suffix(hist, 3) = <<returned.path, returned.path, returned.path>>
    /\ rect.w < returned.w
    /\ rect.h < returned.h
    /\ Len(image_cache) = 2
    /\ OriginalSize(returned)

====
